---- MODULE Spec2Model ----
(***************************************************************************)
(* noise-stream: the process supervision core.                             *)
(*   NoiseFFmpegRunner   (src/src/noise_runner.py)   one worker process    *)
(*   StreamInfo / NoiseStreamManager (src/src/noise_manager.py) registry   *)
(*   _monitor_stream_health / lifespan (src/src/app.py) health monitor     *)
(*                                                                         *)
(* Every registry operation runs entirely inside `with self._lock`, so a   *)
(* registry operation is one atomic step.  The monitor thread takes the    *)
(* registry lock once per call (health_check, stop_stream, start_stream),  *)
(* so one monitor cycle is several steps that interleave with API calls,   *)
(* worker exits, manifest writes and the passing of time.                  *)
(*                                                                         *)
(* Strings are sequences of one-character strings, so that prefix tests,   *)
(* prefix removal and lower-casing are computed, not assumed.              *)
(* A Popen handle is "None" (no handle), "live" (poll() is None) or        *)
(* "exited" (poll() is not None).  workers[id] counts the live worker      *)
(* processes of the operating system that were spawned for stream id,      *)
(* whether or not a registered runner still owns them.                     *)
(* Thread creation (Thread.start) is taken never to fail.                  *)
(***************************************************************************)
EXTENDS Integers, Sequences, FiniteSets, TLC

\* ------------------------------------------------------------------ bounds

\* Number of entries of NOISE_TYPES in the modelled configuration.
NumTypes == 2

\* Largest manifest age drawn as an input of StreamInfo.health_check.
MaxInputAge == 12

\* Longest list of per-stream entries drawn as an input of the aggregate.
MaxSummaryLen == 3

\* The count of time units since the running flag was cleared stops here.
MaxClearedFor == 2

\* Number of worker processes one runner spawns in a run of the model.
MaxSpawns == 2

\* -------------------------------------------------------- program constants

\* (current_time - mtime) < 10.0
FRESH_WINDOW == 10

\* for _ in range(10): threading.Event().wait(1)
CHECK_PERIOD == 10

\* threading.Event().wait(1): one pass of the sleep loop
POLL_PERIOD == 1

\* threading.Event().wait(5) of the except clause
BACKOFF_DELAY == 5

\* self._process.wait(timeout=5) of NoiseFFmpegRunner.stop
STOP_GRACE == 5

\* _monitor_thread.join(timeout=2) of lifespan
JOIN_TIMEOUT == 2

None == "None"

\* ------------------------------------------------------------------ strings

Str_noise_ == <<"n", "o", "i", "s", "e", "_">>
Str_White == <<"W", "h", "i", "t", "e">>
Str_pink == <<"p", "i", "n", "k">>
Str_brown == <<"b", "r", "o", "w", "n">>
Str_Grey == <<"G", "r", "e", "y">>
Str_red == <<"r", "e", "d">>

\* str.lower on the alphabet in use
lower_char(c) ==
    CASE c = "W" -> "w"
      [] c = "G" -> "g"
      [] OTHER -> c

lower(s) == [i \in 1..Len(s) |-> lower_char(s[i])]

startswith(s, p) == Len(s) >= Len(p) /\ SubSeq(s, 1, Len(p)) = p

removeprefix(s, p) == IF startswith(s, p) THEN SubSeq(s, Len(p) + 1, Len(s)) ELSE s

SeqToSet(s) == {s[i] : i \in 1..Len(s)}

\* ------------------------------------------------------------ configuration

\* NOISE_TYPES as read from the environment (default "white,pink,brown");
\* entries may carry upper-case letters.
config_noise_types == SubSeq(<<Str_White, Str_pink, Str_brown, Str_Grey>>, 1, NumTypes)

\* self.noise_types = [n.lower() for n in noise_types]
noise_types == [i \in 1..Len(config_noise_types) |-> lower(config_noise_types[i])]

\* stream_id = f"noise_{noise_type}"
stream_id_of(noise_type) == Str_noise_ \o noise_type

StreamIds == {stream_id_of(noise_types[i]) : i \in 1..Len(noise_types)}

\* Identifiers a caller may pass to start_stream / stop_stream: every
\* configured one, one without the prefix, one whose remainder is a
\* configured entry before lower-casing, one with an unknown remainder,
\* and the bare prefix.
RequestIds ==
    StreamIds \cup {lower(Str_White), Str_noise_ \o Str_White, Str_noise_ \o Str_red, Str_noise_}

\* ------------------------------------------------------------- StreamState

STOPPED == "stopped"
STARTING == "starting"
RUNNING == "running"
ERROR == "error"

StreamState == {STOPPED, STARTING, RUNNING, ERROR}

\* datetime.now(), abstracted to "a timestamp"
Now == "now"

ProcessValues == {None, "live", "exited"}

\* What can go wrong in one start attempt of one stream.
\*   create_mkdir_OSError  hls_dir.mkdir raises in _create_stream_for_noise
\*   mkdir_OSError         self.hls_dir.mkdir raises in NoiseFFmpegRunner.start
\*   which_None            shutil.which("ffmpeg") returns None
\*   FileNotFoundError     Popen raises FileNotFoundError
\*   SubprocessError       Popen raises subprocess.SubprocessError
\*   Popen_OSError         Popen raises another OSError (PermissionError, ...)
NoFault == "none"

ReturnFalseFaults == {"which_None", "FileNotFoundError", "SubprocessError"}

RaisingStartFaults == {"mkdir_OSError", "Popen_OSError"}

Faults == {NoFault, "create_mkdir_OSError"} \cup ReturnFalseFaults \cup RaisingStartFaults

\* One fault of each effect.  which_None, FileNotFoundError and
\* SubprocessError all make start return False, mkdir_OSError and
\* Popen_OSError both leave start with an exception: faults of one effect
\* lead to the same successor states, so the actions draw one of each.
FaultKinds == {NoFault, "create_mkdir_OSError", "which_None", "Popen_OSError"}

\* --------------------------------------------------------- NoiseFFmpegRunner

\* result is "True", "False" or "raise" (an exception leaves start)
NoiseFFmpegRunner_start(process, fault) ==
    IF process = "live"
    THEN [result |-> "False", process |-> process, spawned |-> FALSE]
    ELSE IF fault = "mkdir_OSError"
    THEN [result |-> "raise", process |-> process, spawned |-> FALSE]
    ELSE IF fault = "which_None"
    THEN [result |-> "False", process |-> process, spawned |-> FALSE]
    ELSE IF fault \in {"FileNotFoundError", "SubprocessError"}
    THEN [result |-> "False", process |-> process, spawned |-> FALSE]
    ELSE IF fault = "Popen_OSError"
    THEN [result |-> "raise", process |-> process, spawned |-> FALSE]
    ELSE [result |-> "True", process |-> "live", spawned |-> TRUE]

\* stop that answers True for a live process without ending it
NoiseFFmpegRunner_stop_keeps_process(process) ==
    IF process = None
    THEN [result |-> FALSE, process |-> process, killed |-> FALSE]
    ELSE IF process = "exited"
    THEN [result |-> TRUE, process |-> None, killed |-> FALSE]
    ELSE [result |-> TRUE, process |-> process, killed |-> FALSE]

\* killed: a live process was terminated (or killed after the grace period)
NoiseFFmpegRunner_stop(process) ==
    IF process = None
    THEN [result |-> FALSE, process |-> process, killed |-> FALSE]
    ELSE IF process = "exited"
    THEN [result |-> TRUE, process |-> None, killed |-> FALSE]
    ELSE [result |-> TRUE, process |-> None, killed |-> TRUE]

NoiseFFmpegRunner_is_running(process) == process # None /\ process = "live"

NoiseFFmpegRunner_get_status(process) ==
    IF process = None THEN [running |-> FALSE]
    ELSE IF process = "exited" THEN [running |-> FALSE]
    ELSE [running |-> TRUE]

\* ---------------------------------------------------------------- StreamInfo

\* A manifest file: exists, age = current_time - st_mtime, and stat_error
\* when stat() raises OSError although exists() answered true.
Manifest(exists, age, stat_error) == [exists |-> exists, age |-> age, stat_error |-> stat_error]

\* manifest_fresh with `<=` written for `<`
manifest_fresh_le(manifest) ==
    IF manifest.exists /\ ~manifest.stat_error
    THEN manifest.age <= FRESH_WINDOW
    ELSE FALSE

\* manifest_fresh: False unless the file exists and stat() succeeds, then
\* (current_time - mtime) < 10.0
manifest_fresh_of(manifest) ==
    IF manifest.exists /\ ~manifest.stat_error
    THEN manifest.age < FRESH_WINDOW
    ELSE FALSE

StreamInfo_health_check(info, manifest) ==
    LET is_running == NoiseFFmpegRunner_get_status(info.process).running
        hls_available == manifest.exists
        manifest_fresh == manifest_fresh_of(manifest)
        status ==
            IF info.state = RUNNING /\ is_running /\ hls_available /\ manifest_fresh
            THEN "healthy"
            ELSE IF info.state = RUNNING /\ is_running /\ hls_available /\ ~manifest_fresh
            THEN "unhealthy"
            ELSE IF info.state = STOPPED THEN "stopped"
            ELSE IF info.state = STARTING THEN "starting"
            ELSE "unhealthy"
    IN  [stream_id |-> info.stream_id,
         status |-> status,
         process_running |-> is_running,
         hls_available |-> hls_available,
         manifest_fresh |-> manifest_fresh]

\* -------------------------------------------------------- NoiseStreamManager

\* self._streams is a dict: a sequence of records in insertion order, at
\* most one per stream_id.
IndexOf(S, stream_id) ==
    IF \E i \in 1..Len(S) : S[i].stream_id = stream_id
    THEN CHOOSE i \in 1..Len(S) : S[i].stream_id = stream_id
    ELSE 0

\* self._streams[stream_id] = stream_info
Put(S, info) ==
    IF IndexOf(S, info.stream_id) = 0
    THEN Append(S, info)
    ELSE [S EXCEPT ![IndexOf(S, info.stream_id)] = info]

\* The StreamInfo built by _create_stream_for_noise, with a new runner.
create_stream_for_noise(noise_type) ==
    [stream_id |-> stream_id_of(noise_type),
     noise_type |-> noise_type,
     state |-> STOPPED,
     started_at |-> None,
     error_message |-> None,
     process |-> None]

FailedToStart == "Failed to start FFmpeg process"

\* What a single-stream operation hands back: a dict, or an exception.
Result(op, stream_id, success, text) ==
    [op |-> op, stream_id |-> stream_id, raised |-> FALSE, success |-> success, text |-> text]

Raised(op, stream_id) ==
    [op |-> op, stream_id |-> stream_id, raised |-> TRUE, success |-> FALSE, text |-> "OSError"]

\* What a batch operation hands back.
BatchResult(op, success, started, failed, stopped, results) ==
    [op |-> op, stream_id |-> <<>>, raised |-> FALSE, success |-> success,
     total_streams |-> Len(noise_types), started |-> started, failed |-> failed,
     stopped |-> stopped, streams |-> results]

BatchRaised(op) ==
    [op |-> op, stream_id |-> <<>>, raised |-> TRUE, success |-> FALSE,
     total_streams |-> 0, started |-> 0, failed |-> 0, stopped |-> 0, streams |-> <<>>]

Outcome(S, W, r) == [streams |-> S, workers |-> W, ret |-> r]

\* Started without `stream_info.state = StreamState.RUNNING`
Started_keeps_state(info, process) ==
    [info EXCEPT !.started_at = Now, !.error_message = None, !.process = process]

\* Failed without `stream_info.error_message = "Failed to start FFmpeg process"`
Failed_without_message(info) == [info EXCEPT !.state = ERROR]

\* The record after a successful / failed runner.start()
Started(info, process) ==
    [info EXCEPT !.state = RUNNING, !.started_at = Now, !.error_message = None,
                 !.process = process]

Failed(info) == [info EXCEPT !.state = ERROR, !.error_message = FailedToStart]

\* already_running without the test: every entry is created and started anew
already_running_untested(S, stream_id) == FALSE

\* start_all_streams: `if stream_id in self._streams` and
\* `existing.runner.is_running()`
already_running(S, stream_id) ==
    /\ IndexOf(S, stream_id) # 0
    /\ NoiseFFmpegRunner_is_running(S[IndexOf(S, stream_id)].process)

\* One pass of the body of `for noise in self.noise_types`, for entry k;
\* status "raise" when an exception leaves the loop.
start_all_entry(k, S, W, fault) ==
    LET noise == noise_types[k]
        stream_id == stream_id_of(noise)
    IN
    IF already_running(S, stream_id)
    THEN [streams |-> S, workers |-> W, status |-> "already_running"]
    ELSE IF fault = "create_mkdir_OSError"
    THEN [streams |-> S, workers |-> W, status |-> "raise"]
    ELSE
      LET stream_info == [create_stream_for_noise(noise) EXCEPT !.state = STARTING]
          r == NoiseFFmpegRunner_start(stream_info.process, fault)
      IN
      IF r.result = "raise"
      THEN [streams |-> S, workers |-> W, status |-> "raise"]
      ELSE IF r.result = "True"
      THEN [streams |-> Put(S, Started(stream_info, r.process)),
            workers |-> [W EXCEPT ![stream_id] = @ + 1],
            status |-> "started"]
      ELSE [streams |-> Put(S, Failed(stream_info)), workers |-> W, status |-> "failed"]

\* The loop `for noise in self.noise_types` from entry k on, and the return.
\* faults[k] is what goes wrong when entry k is started.
RECURSIVE start_all_loop(_, _, _, _, _, _, _)
start_all_loop(k, S, W, faults, results, started_count, failed_count) ==
    IF k > Len(noise_types)
    THEN Outcome(S, W, BatchResult("start_all_streams", started_count > 0,
                                   started_count, failed_count, 0, results))
    ELSE
      LET e == start_all_entry(k, S, W, faults[k])
      IN
      IF e.status = "raise"
      THEN Outcome(S, W, BatchRaised("start_all_streams"))
      ELSE start_all_loop(k + 1, e.streams, e.workers, faults,
                          Append(results, [stream_id |-> stream_id_of(noise_types[k]),
                                           status |-> e.status]),
                          started_count + (IF e.status = "failed" THEN 0 ELSE 1),
                          failed_count + (IF e.status = "failed" THEN 1 ELSE 0))

start_all_streams(S, W, faults) == start_all_loop(1, S, W, faults, <<>>, 0, 0)

\* One pass of the body of `for stream_id, stream_info in
\* self._streams.items()`, for the i-th record.
stop_all_entry(i, S, W) ==
    LET stream_info == S[i]
        stream_id == stream_info.stream_id
    IN
    IF NoiseFFmpegRunner_is_running(stream_info.process)
    THEN
      LET r == NoiseFFmpegRunner_stop(stream_info.process)
      IN
      IF r.result
      THEN [streams |-> [S EXCEPT ![i] = [stream_info EXCEPT !.state = STOPPED,
                                                            !.started_at = None,
                                                            !.process = r.process]],
            workers |-> IF r.killed THEN [W EXCEPT ![stream_id] = @ - 1] ELSE W,
            status |-> "stopped"]
      ELSE [streams |-> S, workers |-> W, status |-> "failed_to_stop"]
    ELSE [streams |-> S, workers |-> W, status |-> "was_not_running"]

\* The loop over the records from the i-th on, and the return.
RECURSIVE stop_all_loop(_, _, _, _, _)
stop_all_loop(i, S, W, results, stopped_count) ==
    IF i > Len(S)
    THEN Outcome(S, W, BatchResult("stop_all_streams", TRUE, 0, 0, stopped_count, results))
    ELSE
      LET e == stop_all_entry(i, S, W)
      IN  stop_all_loop(i + 1, e.streams, e.workers,
                        Append(results, [stream_id |-> S[i].stream_id, status |-> e.status]),
                        stopped_count + (IF e.status = "stopped" THEN 1 ELSE 0))

stop_all_streams(S, W) == stop_all_loop(1, S, W, <<>>, 0)

stop_stream(S, W, stream_id) ==
    LET i == IndexOf(S, stream_id)
    IN
    IF i = 0
    THEN Outcome(S, W, Result("stop_stream", stream_id, FALSE, "Stream not found"))
    ELSE IF ~NoiseFFmpegRunner_is_running(S[i].process)
    THEN Outcome(S, W, Result("stop_stream", stream_id, TRUE, "Stream was not running"))
    ELSE
      LET r == NoiseFFmpegRunner_stop(S[i].process)
      IN
      IF r.result
      THEN Outcome([S EXCEPT ![i] = [S[i] EXCEPT !.state = STOPPED, !.started_at = None,
                                                 !.process = r.process]],
                   IF r.killed THEN [W EXCEPT ![stream_id] = @ - 1] ELSE W,
                   Result("stop_stream", stream_id, TRUE, "Stream stopped"))
      ELSE Outcome(S, W, Result("stop_stream", stream_id, FALSE, "Failed to stop stream"))

start_stream(S, W, stream_id, fault) ==
    LET found == IndexOf(S, stream_id) # 0
        noise_type == removeprefix(stream_id, Str_noise_)
    IN
    IF ~found /\ ~startswith(stream_id, Str_noise_)
    THEN Outcome(S, W, Result("start_stream", stream_id, FALSE, "Stream not found"))
    ELSE IF ~found /\ noise_type \notin SeqToSet(noise_types)
    THEN Outcome(S, W, Result("start_stream", stream_id, FALSE, "Invalid noise type"))
    ELSE IF ~found /\ fault = "create_mkdir_OSError"
    THEN Outcome(S, W, Raised("start_stream", stream_id))
    ELSE
      LET S1 == IF found THEN S ELSE Put(S, create_stream_for_noise(noise_type))
          i == IndexOf(S1, stream_id)
          stream_info == S1[i]
      IN
      IF NoiseFFmpegRunner_is_running(stream_info.process)
      THEN Outcome(S1, W, Result("start_stream", stream_id, TRUE, "Stream already running"))
      ELSE
        LET r == NoiseFFmpegRunner_start(stream_info.process, fault)
        IN
        IF r.result = "raise"
        THEN Outcome([S1 EXCEPT ![i].state = STARTING], W, Raised("start_stream", stream_id))
        ELSE IF r.result = "True"
        THEN Outcome([S1 EXCEPT ![i] = Started(stream_info, r.process)],
                     [W EXCEPT ![stream_id] = @ + 1],
                     Result("start_stream", stream_id, TRUE, "Stream started"))
        ELSE Outcome([S1 EXCEPT ![i] = Failed(stream_info)], W,
                     Result("start_stream", stream_id, FALSE, "Failed to start stream"))

\* The values that start_stream assigns to stream_info.state, in order.
start_stream_state_writes(S, stream_id, fault) ==
    LET found == IndexOf(S, stream_id) # 0
        noise_type == removeprefix(stream_id, Str_noise_)
    IN
    IF ~found /\ ~startswith(stream_id, Str_noise_) THEN <<>>
    ELSE IF ~found /\ noise_type \notin SeqToSet(noise_types) THEN <<>>
    ELSE IF ~found /\ fault = "create_mkdir_OSError" THEN <<>>
    ELSE
      LET stream_info == IF found THEN S[IndexOf(S, stream_id)]
                         ELSE create_stream_for_noise(noise_type)
          r == NoiseFFmpegRunner_start(stream_info.process, fault)
      IN
      IF NoiseFFmpegRunner_is_running(stream_info.process) THEN <<>>
      ELSE IF r.result = "raise" THEN <<STARTING>>
      ELSE IF r.result = "True" THEN <<STARTING, RUNNING>>
      ELSE <<STARTING, ERROR>>

\* The values that stop_stream assigns to stream_info.state, in order.
stop_stream_state_writes(S, stream_id) ==
    LET i == IndexOf(S, stream_id)
    IN
    IF i = 0 THEN <<>>
    ELSE IF ~NoiseFFmpegRunner_is_running(S[i].process) THEN <<>>
    ELSE IF NoiseFFmpegRunner_stop(S[i].process).result THEN <<STOPPED>>
    ELSE <<>>

\* StreamInfo.to_dict: the fields that depend on the record and its runner
\* (noise_type, hls_path and stream_url never change)
to_dict(info) ==
    [stream_id |-> info.stream_id,
     state |-> info.state,
     running |-> NoiseFFmpegRunner_get_status(info.process).running,
     started_at |-> info.started_at,
     error_message |-> info.error_message]

get_status(S) ==
    LET running_count == Cardinality({i \in 1..Len(S) : NoiseFFmpegRunner_is_running(S[i].process)})
    IN  [total_streams |-> Len(S),
         running_streams |-> running_count,
         stopped_streams |-> Len(S) - running_count,
         streams |-> [i \in 1..Len(S) |-> to_dict(S[i])]]

CountStatus(stream_health, status) ==
    Cardinality({i \in 1..Len(stream_health) : stream_health[i].status = status})

\* health_summary with "healthy" tested before "degraded"
health_summary_healthy_first(stream_health) ==
    LET healthy_count == CountStatus(stream_health, "healthy")
        stopped_count == CountStatus(stream_health, "stopped")
        unhealthy_count == CountStatus(stream_health, "unhealthy")
        overall_status ==
            IF healthy_count > 0 THEN "healthy"
            ELSE IF unhealthy_count > 0 THEN "degraded"
            ELSE IF stopped_count = Len(stream_health) /\ stopped_count > 0 THEN "stopped"
            ELSE IF Len(stream_health) = 0 THEN "no_streams"
            ELSE "unknown"
    IN  [status |-> overall_status,
         summary |-> [total |-> Len(stream_health),
                      healthy |-> healthy_count,
                      stopped |-> stopped_count,
                      unhealthy |-> unhealthy_count],
         streams |-> stream_health]

\* health_check after `stream_health = [...]`: the counts, the aggregate
\* status and the dict returned.
health_summary(stream_health) ==
    LET healthy_count == CountStatus(stream_health, "healthy")
        stopped_count == CountStatus(stream_health, "stopped")
        unhealthy_count == CountStatus(stream_health, "unhealthy")
        overall_status ==
            IF unhealthy_count > 0 THEN "degraded"
            ELSE IF healthy_count > 0 THEN "healthy"
            ELSE IF stopped_count = Len(stream_health) /\ stopped_count > 0 THEN "stopped"
            ELSE IF Len(stream_health) = 0 THEN "no_streams"
            ELSE "unknown"
    IN  [status |-> overall_status,
         summary |-> [total |-> Len(stream_health),
                      healthy |-> healthy_count,
                      stopped |-> stopped_count,
                      unhealthy |-> unhealthy_count],
         streams |-> stream_health]

\* M[stream_id] is the manifest file stream.m3u8 of the stream's hls_path.
health_check(S, M) ==
    health_summary([i \in 1..Len(S) |-> StreamInfo_health_check(S[i], M[S[i].stream_id])])

\* --------------------------------------------------------------------- state

VARIABLES
    streams,          \* NoiseStreamManager._streams
    workers,          \* live worker processes of the operating system, per stream id
    manifests,        \* the manifest file of each stream's hls directory
    ret,              \* what the last call made by a direct caller returned
    app_pc,           \* lifespan: "init", "autostart", "serving", "join", "down"
    monitor_running,  \* _monitor_running
    monitor_pc,       \* _monitor_stream_health: "off" (no thread yet), "loop" (at
                      \*   the first while test), "stop" / "start" (before that call
                      \*   of the for loop), "sleep" (in the one-second waits, then at
                      \*   the while test), "backoff" (in the except clause's wait,
                      \*   then at the while test), "exit" (returned)
    health,           \* its local `health`: the entries of health["streams"],
                      \*   while the for loop runs over them
    monitor_idx,      \* position of its `for stream in health["streams"]`
    monitor_calls,    \* the registry calls it issued in the current cycle
    hc_in,            \* a health evaluation on its own: the inputs drawn
    hc_out,           \* a health evaluation on its own: the dict returned
    held,             \* what a reader obtained from get_stream, get_streams,
                      \*   get_status or health_check and still holds
    lock,             \* NoiseStreamManager._lock: the thread inside `with
                      \*   self._lock`, or None
    calls,            \* per calling thread, the registry operation it is in
    monitor_wait,     \* time units the monitor still spends in its current wait
                      \*   (in "sleep": passes of the one-second loop still to do)
    polled,           \* in "sleep": the flag was tested and wait(1) is under way
    cleared_for,      \* time units the monitor has lived on since the running
                      \*   flag was cleared
    r_process,        \* one NoiseFFmpegRunner: self._process, a pid or NoPid
    r_lock,           \* its self._lock: the thread inside `with self._lock`, or None
    r_last_error,     \* its self._last_error: the pid whose error line it holds, or NoPid
    r_calls,          \* per calling thread, the method of the runner it is in
    r_ret,            \* what the last call of the runner returned
    procs,            \* the processes Popen created: "unborn", "live", "exited"
    stderr_of,        \* the error line of each process: "empty" (not written),
                      \*   "line" (in the pipe), "read" (taken by readline),
                      \*   "recorded" (assigned to _last_error)
    drains,           \* the _read_stderr thread started with each process
    api_stopped,      \* the streams an API caller stopped and no caller has
                      \*   asked to start since
    runner_locks,     \* per stream id, the thread inside `with self._lock` of
                      \*   its NoiseFFmpegRunner, or None
    drain_pc          \* per stream id, the _read_stderr thread of its worker:
                      \*   "read" (no thread, or a thread in readline), "got"
                      \*   (before the assignment to _last_error)

vars ==
    <<streams, workers, manifests, ret, app_pc, monitor_running, monitor_pc, health,
      monitor_idx, monitor_calls, hc_in, hc_out, held, lock, calls,
      monitor_wait, polled, cleared_for,
      r_process, r_lock, r_last_error, r_calls, r_ret, procs, stderr_of, drains,
      api_stopped, runner_locks, drain_pc>>

monitor_vars == <<monitor_pc, health, monitor_idx, monitor_calls>>

hc_vars == <<hc_in, hc_out>>

\* What only the specifications of single aspects of the program use.
ref_vars == <<held>>

lock_vars == <<lock, calls>>

clock_vars == <<monitor_wait, polled, cleared_for>>

runner_vars == <<r_process, r_lock, r_last_error, r_calls, r_ret, procs, stderr_of, drains>>

intent_vars == <<api_stopped>>

order_vars == <<runner_locks, drain_pc>>

ext_vars == <<ref_vars, lock_vars, clock_vars, runner_vars, intent_vars, order_vars>>

NoReturn == [op |-> None]

NoManifest == Manifest(FALSE, 0, FALSE)

NoInput == [kind |-> None]

NoOutput == [done |-> FALSE]

NotHeld == [kind |-> None, seen |-> <<>>, objs |-> <<>>]

\* The threads that call the registry: API request handlers, the monitor.
Threads == {"t1", "t2"}

Idle == [op |-> None, stream_id |-> <<>>, pc |-> "idle", k |-> 0]

\* The processes one runner may create in a run of the model.
Pids == 1..MaxSpawns

NoPid == 0

RunnerIdle == [op |-> None, pc |-> "idle", owned |-> NoPid]

NoDrain == [pc |-> "none", target |-> NoPid]

InitRunner ==
    /\ r_process = NoPid
    /\ r_lock = None
    /\ r_last_error = NoPid
    /\ r_calls = [t \in Threads |-> RunnerIdle]
    /\ r_ret = NoReturn
    /\ procs = [p \in Pids |-> "unborn"]
    /\ stderr_of = [p \in Pids |-> "empty"]
    /\ drains = [p \in Pids |-> NoDrain]

InitExt ==
    /\ InitRunner
    /\ api_stopped = {}
    /\ runner_locks = [id \in StreamIds |-> None]
    /\ drain_pc = [id \in StreamIds |-> "read"]
    /\ held = NotHeld
    /\ lock = None
    /\ calls = [t \in Threads |-> Idle]
    /\ monitor_wait = 0
    /\ polled = FALSE
    /\ cleared_for = 0

\* The program after NoiseStreamManager.__init__ and the module globals.
InitProgram ==
    /\ streams = <<>>
    /\ workers = [id \in StreamIds |-> 0]
    /\ manifests = [id \in StreamIds |-> NoManifest]
    /\ ret = NoReturn
    /\ app_pc = "init"
    /\ monitor_running = FALSE
    /\ monitor_pc = "off"
    /\ health = <<>>
    /\ monitor_idx = 0
    /\ monitor_calls = <<>>

Init ==
    /\ InitProgram
    /\ InitExt
    /\ hc_in = NoInput
    /\ hc_out = NoOutput

FaultAssignments == [1..Len(noise_types) -> Faults]

FaultKindAssignments == [1..Len(noise_types) -> FaultKinds]

\* The effect of a registry operation on the registry and on the processes.
Apply(out) ==
    /\ streams' = out.streams
    /\ workers' = out.workers

\* ------------------------------------------------------------------ lifespan

\* _monitor_running = True; _monitor_thread.start()
LifespanStartup ==
    /\ app_pc = "init"
    /\ app_pc' = "autostart"
    /\ monitor_running' = TRUE
    /\ monitor_pc' = "loop"
    /\ UNCHANGED <<streams, workers, ret, manifests, health, monitor_idx, monitor_calls, hc_vars, ext_vars>>

\* result = stream_manager.start_all_streams(), an exception caught and logged
LifespanAutoStart(faults) ==
    /\ app_pc = "autostart"
    /\ Apply(start_all_streams(streams, workers, faults))
    /\ app_pc' = "serving"
    /\ UNCHANGED <<ret, manifests, monitor_running, monitor_vars, hc_vars, ext_vars>>

\* _monitor_running = False; the join(timeout=2) that follows returns when
\* the monitor has exited or when the timeout has elapsed
LifespanShutdown ==
    /\ app_pc = "serving"
    /\ app_pc' = "join"
    /\ monitor_running' = FALSE
    /\ UNCHANGED <<streams, workers, ret, manifests, monitor_vars, hc_vars, ext_vars>>

\* stream_manager.stop_all_streams() after the join
LifespanStopAll ==
    /\ app_pc = "join"
    /\ Apply(stop_all_streams(streams, workers))
    /\ app_pc' = "down"
    /\ UNCHANGED <<ret, manifests, monitor_running, monitor_vars, hc_vars, ext_vars>>

\* ----------------------------------------------------------------- API layer
\* The endpoints hand the returned dict to the HTTP layer; nothing of it
\* stays in the program.

ApiStartAll(faults) ==
    /\ app_pc = "serving"
    /\ Apply(start_all_streams(streams, workers, faults))
    /\ UNCHANGED <<ret, manifests, app_pc, monitor_running, monitor_vars, hc_vars, ext_vars>>

ApiStopAll ==
    /\ app_pc = "serving"
    /\ Apply(stop_all_streams(streams, workers))
    /\ UNCHANGED <<ret, manifests, app_pc, monitor_running, monitor_vars, hc_vars, ext_vars>>

ApiStartStream(stream_id, fault) ==
    /\ app_pc = "serving"
    /\ Apply(start_stream(streams, workers, stream_id, fault))
    /\ UNCHANGED <<ret, manifests, app_pc, monitor_running, monitor_vars, hc_vars, ext_vars>>

ApiStopStream(stream_id) ==
    /\ app_pc = "serving"
    /\ Apply(stop_stream(streams, workers, stream_id))
    /\ UNCHANGED <<ret, manifests, app_pc, monitor_running, monitor_vars, hc_vars, ext_vars>>

\* ------------------------------------------------------------ health monitor

\* if stream["status"] == "unhealthy" and stream.get("process_running")
NeedsRestart(stream) == stream.status = "unhealthy" /\ stream.process_running

\* The first position from `from` on whose stream the loop restarts;
\* Len + 1 when the loop runs to its end.
NextRestart(h, from) ==
    IF \E j \in from..Len(h) : NeedsRestart(h[j])
    THEN CHOOSE j \in from..Len(h) :
            /\ NeedsRestart(h[j])
            /\ \A l \in from..(j - 1) : ~NeedsRestart(h[l])
    ELSE Len(h) + 1

\* The fields of a health entry that the monitor reads.
MonitorView(stream_health) ==
    [i \in 1..Len(stream_health) |->
        [stream_id |-> stream_health[i].stream_id,
         status |-> stream_health[i].status,
         process_running |-> stream_health[i].process_running]]

\* except Exception without the handler: the exception ends the thread
AfterException_uncaught == "exit"

\* except Exception as e: the thread logs and goes on to wait(5)
AfterException == "backoff"

AtWhileTest == monitor_pc \in {"loop", "sleep", "backoff"}

\* while _monitor_running: health = stream_manager.health_check(), and the
\* for loop up to the first stream it restarts
MonitorHealthCheckBody ==
    /\ AtWhileTest
    /\ monitor_running
    /\ LET h == MonitorView(health_check(streams, manifests).streams)
           first == NextRestart(h, 1)
       IN  IF first <= Len(h)
           THEN /\ health' = h
                /\ monitor_idx' = first
                /\ monitor_pc' = "stop"
           ELSE /\ health' = <<>>
                /\ monitor_idx' = 0
                /\ monitor_pc' = "sleep"
    /\ monitor_calls' = <<>>
    /\ UNCHANGED <<streams, workers, ret, manifests, app_pc, monitor_running, hc_vars, ref_vars, lock_vars, runner_vars, intent_vars, order_vars>>

MonitorHealthCheck == MonitorHealthCheckBody /\ UNCHANGED clock_vars

\* while _monitor_running: the flag is found cleared
MonitorExitBody ==
    /\ AtWhileTest
    /\ ~monitor_running
    /\ monitor_pc' = "exit"
    /\ UNCHANGED <<streams, workers, ret, manifests, app_pc, monitor_running, health,
                   monitor_idx, monitor_calls, hc_vars, ref_vars, lock_vars, runner_vars, intent_vars, order_vars>>

MonitorExit == MonitorExitBody /\ UNCHANGED clock_vars

\* stream_manager.stop_stream(stream_id)
MonitorStopBody ==
    /\ monitor_pc = "stop"
    /\ Apply(stop_stream(streams, workers, health[monitor_idx].stream_id))
    /\ monitor_calls' = Append(monitor_calls, <<"stop_stream", health[monitor_idx].stream_id>>)
    /\ monitor_pc' = "start"
    /\ UNCHANGED <<ret, manifests, app_pc, monitor_running, health, monitor_idx, hc_vars, ref_vars, lock_vars, runner_vars, intent_vars, order_vars>>

MonitorStop == MonitorStopBody /\ UNCHANGED clock_vars

\* stream_manager.start_stream(stream_id), and the for loop up to the next
\* stream it restarts; an exception leaves the loop for the except clause
MonitorStartBody(fault) ==
    /\ monitor_pc = "start"
    /\ LET out == start_stream(streams, workers, health[monitor_idx].stream_id, fault)
           next == NextRestart(health, monitor_idx + 1)
       IN  /\ Apply(out)
           /\ IF out.ret.raised
              THEN /\ monitor_pc' = AfterException
                   /\ health' = <<>>
                   /\ monitor_idx' = 0
              ELSE IF next <= Len(health)
              THEN /\ monitor_pc' = "stop"
                   /\ health' = health
                   /\ monitor_idx' = next
              ELSE /\ monitor_pc' = "sleep"
                   /\ health' = <<>>
                   /\ monitor_idx' = 0
    /\ monitor_calls' = Append(monitor_calls, <<"start_stream", health[monitor_idx].stream_id>>)
    /\ UNCHANGED <<ret, manifests, app_pc, monitor_running, hc_vars, ref_vars, lock_vars, runner_vars, intent_vars, order_vars>>

MonitorStart(fault) == MonitorStartBody(fault) /\ UNCHANGED clock_vars

\* --------------------------------------------------------------- environment

\* The worker a registered runner owns exits on its own.
WorkerExit(i) ==
    /\ i \in 1..Len(streams)
    /\ streams[i].process = "live"
    /\ streams' = [streams EXCEPT ![i].process = "exited"]
    /\ workers' = [workers EXCEPT ![streams[i].stream_id] = @ - 1]
    /\ UNCHANGED <<ret, manifests, app_pc, monitor_running, monitor_vars, hc_vars, ext_vars>>

\* A live worker rewrites its manifest.
WorkerWritesManifest(stream_id) ==
    /\ workers[stream_id] > 0
    /\ manifests[stream_id] # Manifest(TRUE, 0, FALSE)
    /\ manifests' = [manifests EXCEPT ![stream_id] = Manifest(TRUE, 0, FALSE)]
    /\ UNCHANGED <<streams, workers, ret, app_pc, monitor_running, monitor_vars, hc_vars, ext_vars>>

Min(a, b) == IF a < b THEN a ELSE b

\* One monitor period of time passes.  An age is only ever compared with
\* FRESH_WINDOW, so ages saturate there.
Tick ==
    /\ \E id \in StreamIds : manifests[id].exists /\ manifests[id].age < FRESH_WINDOW
    /\ manifests' = [id \in StreamIds |->
                        IF manifests[id].exists
                        THEN [manifests[id] EXCEPT !.age = Min(@ + CHECK_PERIOD, FRESH_WINDOW)]
                        ELSE manifests[id]]
    /\ UNCHANGED <<streams, workers, ret, app_pc, monitor_running, monitor_vars, hc_vars, ext_vars>>

\* The application: lifespan, API callers, the monitor thread, the workers.
Next ==
    \/ LifespanStartup
    \/ \E faults \in FaultKindAssignments : LifespanAutoStart(faults)
    \/ LifespanShutdown
    \/ LifespanStopAll
    \/ \E faults \in FaultKindAssignments : ApiStartAll(faults)
    \/ ApiStopAll
    \/ \E stream_id \in RequestIds, fault \in FaultKinds : ApiStartStream(stream_id, fault)
    \/ \E stream_id \in RequestIds : ApiStopStream(stream_id)
    \/ MonitorHealthCheck
    \/ MonitorExit
    \/ MonitorStop
    \/ \E fault \in FaultKinds : MonitorStart(fault)
    \/ \E i \in 1..NumTypes : WorkerExit(i)
    \/ \E stream_id \in StreamIds : WorkerWritesManifest(stream_id)
    \/ Tick

Spec == Init /\ [][Next]_vars

\* ------------------------------------------------- the registry on its own
\* A NoiseStreamManager driven by one caller that keeps what each call
\* returns, with workers that may exit on their own.

Call(out) ==
    /\ Apply(out)
    /\ ret' = out.ret
    /\ UNCHANGED <<manifests, app_pc, monitor_running, monitor_vars, hc_vars, ext_vars>>

CallStartAll(faults) == Call(start_all_streams(streams, workers, faults))

CallStopAll == Call(stop_all_streams(streams, workers))

CallStartStream(stream_id, fault) == Call(start_stream(streams, workers, stream_id, fault))

CallStopStream(stream_id) == Call(stop_stream(streams, workers, stream_id))

NextRegistry ==
    \/ \E faults \in FaultKindAssignments : CallStartAll(faults)
    \/ CallStopAll
    \/ \E stream_id \in RequestIds, fault \in FaultKinds : CallStartStream(stream_id, fault)
    \/ \E stream_id \in RequestIds : CallStopStream(stream_id)
    \/ \E i \in 1..NumTypes : WorkerExit(i)

SpecRegistry == Init /\ [][NextRegistry]_vars

\* --------------------------------------------------- readers of the registry
\* A caller takes one result from get_stream, get_streams, get_status or
\* health_check and keeps it while other callers operate the registry.
\* get_stream hands out the StreamInfo object of the registry itself and
\* get_streams a new dict of the same StreamInfo objects; get_status and
\* health_check build new dicts of values.  held.objs names the objects the
\* result shares with the registry: an object stays the registry's record
\* of its stream_id (attached) until start_all_streams stores a new
\* StreamInfo under that key, and keeps the value it had from then on.

\* The fields of a StreamInfo object that only registry operations assign.
RecordFields(info) ==
    [stream_id |-> info.stream_id,
     state |-> info.state,
     started_at |-> info.started_at,
     error_message |-> info.error_message]

Ref(info) == [stream_id |-> info.stream_id, attached |-> TRUE, value |-> info]

\* The StreamInfo object behind a reference, as it is in registry S.
Deref(S, ref) == IF ref.attached THEN S[IndexOf(S, ref.stream_id)] ELSE ref.value

\* What the holder reads in its result when the registry is S.
View(S, h) ==
    IF h.kind \in {"get_stream", "get_streams"}
    THEN [i \in 1..Len(h.objs) |-> RecordFields(Deref(S, h.objs[i]))]
    ELSE h.seen

ReaderIdle == held.kind = None

Keep(h) ==
    /\ held' = h
    /\ UNCHANGED <<streams, workers, manifests, ret, app_pc, monitor_running, monitor_vars, hc_vars,
                   lock_vars, runner_vars, intent_vars, order_vars, clock_vars>>

\* get_stream(stream_id): self._streams.get(stream_id)
ReaderGetStream(stream_id) ==
    /\ ReaderIdle
    /\ LET objs == IF IndexOf(streams, stream_id) = 0
                   THEN <<>>
                   ELSE <<Ref(streams[IndexOf(streams, stream_id)])>>
           h == [kind |-> "get_stream", seen |-> <<>>, objs |-> objs]
       IN  Keep([h EXCEPT !.seen = View(streams, h)])

\* get_streams(): dict(self._streams)
ReaderGetStreams ==
    /\ ReaderIdle
    /\ LET h == [kind |-> "get_streams", seen |-> <<>>,
                 objs |-> [i \in 1..Len(streams) |-> Ref(streams[i])]]
       IN  Keep([h EXCEPT !.seen = View(streams, h)])

ReaderGetStatus ==
    /\ ReaderIdle
    /\ Keep([kind |-> "get_status", seen |-> get_status(streams), objs |-> <<>>])

ReaderHealthCheck ==
    /\ ReaderIdle
    /\ Keep([kind |-> "health_check", seen |-> health_check(streams, manifests), objs |-> <<>>])

\* Entry k of start_all_streams stores a new StreamInfo under its key: the
\* loop reaches the entry, does not skip it and no exception leaves the
\* loop before `self._streams[stream_id] = stream_info`.
Raises(fault) == fault \in {"create_mkdir_OSError"} \cup RaisingStartFaults

Replaces(S, faults, k) ==
    /\ ~already_running(S, stream_id_of(noise_types[k]))
    /\ \A j \in 1..k : already_running(S, stream_id_of(noise_types[j])) \/ ~Raises(faults[j])

\* The held objects after start_all_streams: a replaced one is no longer
\* the registry's.
Detach(S, faults, h) ==
    [h EXCEPT !.objs =
        [i \in 1..Len(h.objs) |->
            IF /\ h.objs[i].attached
               /\ \E k \in 1..Len(noise_types) :
                     /\ stream_id_of(noise_types[k]) = h.objs[i].stream_id
                     /\ Replaces(S, faults, k)
            THEN [h.objs[i] EXCEPT !.attached = FALSE, !.value = Deref(S, h.objs[i])]
            ELSE h.objs[i]]]

Operate(out, h) ==
    /\ Apply(out)
    /\ held' = h
    /\ UNCHANGED <<manifests, ret, app_pc, monitor_running, monitor_vars, hc_vars, lock_vars, runner_vars, intent_vars, order_vars,
                   clock_vars>>

OtherStartAll(faults) ==
    Operate(start_all_streams(streams, workers, faults), Detach(streams, faults, held))

OtherStopAll == Operate(stop_all_streams(streams, workers), held)

OtherStartStream(stream_id, fault) == Operate(start_stream(streams, workers, stream_id, fault), held)

OtherStopStream(stream_id) == Operate(stop_stream(streams, workers, stream_id), held)

\* What goes wrong in the start attempts of the other callers: nothing, or
\* a start that returns False.
ReaderFaults == {NoFault, "which_None"}

NextReaders ==
    \/ \E stream_id \in RequestIds : ReaderGetStream(stream_id)
    \/ ReaderGetStreams
    \/ ReaderGetStatus
    \/ ReaderHealthCheck
    \/ \E faults \in [1..Len(noise_types) -> ReaderFaults] : OtherStartAll(faults)
    \/ OtherStopAll
    \/ \E stream_id \in RequestIds, fault \in ReaderFaults : OtherStartStream(stream_id, fault)
    \/ \E stream_id \in RequestIds : OtherStopStream(stream_id)
    \/ \E i \in 1..NumTypes : WorkerExit(i)

SpecReaders == Init /\ [][NextReaders]_vars

\* ------------------------------------------------------- the registry lock
\* Every public method of NoiseStreamManager runs inside `with self._lock`.
\* Here an operation is the steps its thread takes: it is invoked, enters
\* the with block, runs the body (a batch one entry at a time, stop_stream
\* through the wait for the terminated worker) and leaves the block.

BatchOps == {"start_all_streams", "stop_all_streams"}

SingleOps == {"start_stream", "stop_stream"}

QueryOps == {"get_stream", "get_status", "health_check"}

\* `with self._lock`, without waiting
CanEnter_unlocked(t) == TRUE

\* `with self._lock`: threading.Lock is free
CanEnter(t) == lock = None

Rest == <<manifests, ret, app_pc, monitor_running, monitor_vars, hc_vars, ref_vars, runner_vars, intent_vars, order_vars, clock_vars>>

\* A thread calls an operation of the registry.
Invoke(t, op, stream_id) ==
    /\ calls[t].pc = "idle"
    /\ calls' = [calls EXCEPT ![t] = [op |-> op, stream_id |-> stream_id, pc |-> "acquire", k |-> 0]]
    /\ UNCHANGED <<streams, workers, lock, Rest>>

\* It enters the with block.
Acquire(t) ==
    /\ calls[t].pc = "acquire"
    /\ CanEnter(t)
    /\ lock' = t
    /\ calls' = [calls EXCEPT ![t].pc = "body", ![t].k = 1]
    /\ UNCHANGED <<streams, workers, Rest>>

InBody(t, op) == lock = t /\ calls[t].op = op /\ calls[t].pc = "body"

\* It leaves the with block, by return or by an exception.
Leave(t) ==
    /\ lock' = None
    /\ calls' = [calls EXCEPT ![t] = Idle]

StartAllEntry(t, fault) ==
    /\ InBody(t, "start_all_streams")
    /\ calls[t].k <= Len(noise_types)
    /\ LET e == start_all_entry(calls[t].k, streams, workers, fault)
       IN  IF e.status = "raise"
           THEN Leave(t) /\ UNCHANGED <<streams, workers>>
           ELSE /\ Apply(e)
                /\ calls' = [calls EXCEPT ![t].k = @ + 1]
                /\ lock' = lock
    /\ UNCHANGED Rest

StopAllEntry(t) ==
    /\ InBody(t, "stop_all_streams")
    /\ calls[t].k <= Len(streams)
    /\ Apply(stop_all_entry(calls[t].k, streams, workers))
    /\ calls' = [calls EXCEPT ![t].k = @ + 1]
    /\ UNCHANGED <<lock, Rest>>

\* The loop of a batch is over: the dict is built and returned.
BatchReturn(t) ==
    /\ \/ InBody(t, "start_all_streams") /\ calls[t].k > Len(noise_types)
       \/ InBody(t, "stop_all_streams") /\ calls[t].k > Len(streams)
    /\ Leave(t)
    /\ UNCHANGED <<streams, workers, Rest>>

StartStreamBody(t, fault) ==
    /\ InBody(t, "start_stream")
    /\ Apply(start_stream(streams, workers, calls[t].stream_id, fault))
    /\ Leave(t)
    /\ UNCHANGED Rest

\* stop_stream up to runner.stop(): terminate() is sent to a live worker and
\* the thread waits for it, up to the grace period, inside the with block.
StopStreamBody(t) ==
    /\ InBody(t, "stop_stream")
    /\ IF already_running(streams, calls[t].stream_id)
       THEN /\ calls' = [calls EXCEPT ![t].pc = "grace"]
            /\ UNCHANGED <<streams, workers, lock>>
       ELSE /\ Apply(stop_stream(streams, workers, calls[t].stream_id))
            /\ Leave(t)
    /\ UNCHANGED Rest

\* The worker has exited or was killed after the grace period.
StopStreamDone(t) ==
    /\ lock = t
    /\ calls[t].pc = "grace"
    /\ Apply(stop_stream(streams, workers, calls[t].stream_id))
    /\ Leave(t)
    /\ UNCHANGED Rest

\* get_stream, get_status, health_check: the body reads the registry.
QueryBody(t) ==
    /\ lock = t
    /\ calls[t].op \in QueryOps
    /\ calls[t].pc = "body"
    /\ Leave(t)
    /\ UNCHANGED <<streams, workers, Rest>>

\* A worker exits on its own; the exit of a worker that stop_stream waits
\* for is StopStreamDone.
LockWorkerExit(i) ==
    /\ i \in 1..Len(streams)
    /\ \A t \in Threads : calls[t].pc = "grace" => calls[t].stream_id # streams[i].stream_id
    /\ WorkerExit(i)

NextLock ==
    \/ \E t \in Threads, op \in BatchOps \cup {"get_status", "health_check"} : Invoke(t, op, <<>>)
    \/ \E t \in Threads, op \in SingleOps \cup {"get_stream"}, stream_id \in StreamIds :
          Invoke(t, op, stream_id)
    \/ \E t \in Threads : Acquire(t)
    \/ \E t \in Threads, fault \in FaultKinds : StartAllEntry(t, fault)
    \/ \E t \in Threads : StopAllEntry(t)
    \/ \E t \in Threads : BatchReturn(t)
    \/ \E t \in Threads, fault \in FaultKinds : StartStreamBody(t, fault)
    \/ \E t \in Threads : StopStreamBody(t)
    \/ \E t \in Threads : StopStreamDone(t)
    \/ \E t \in Threads : QueryBody(t)
    \/ \E i \in 1..NumTypes : LockWorkerExit(i)

SpecLock == Init /\ [][NextLock]_vars

\* ------------------------------------------------------ the monitor in time
\* The monitor thread with the time its waits take, beside the lifespan and
\* the workers.  Calls of the registry return at once, except a stop_stream
\* that terminates a live worker, which may wait out the grace period.  The
\* sleep between cycles is CHECK_PERIOD passes of "test the flag, wait(1)".
\* Time passes, one unit per ClockTick, only while the monitor is in a wait.
\* The age of a manifest is read only through the comparison with
\* FRESH_WINDOW, so Tick takes a manifest from fresh to stale in one step.

WaitAfter(pc) ==
    IF pc = "sleep" THEN CHECK_PERIOD
    ELSE IF pc = "backoff" THEN BACKOFF_DELAY
    ELSE 0

TimedHealthCheck ==
    /\ monitor_wait = 0
    /\ MonitorHealthCheckBody
    /\ monitor_wait' = WaitAfter(monitor_pc')
    /\ polled' = FALSE
    /\ UNCHANGED cleared_for

\* `if not _monitor_running: break` of the sleep loop and the while test, or
\* the while test after the loop or after wait(5)
TimedExit ==
    /\ MonitorExitBody
    /\ IF monitor_pc = "sleep" THEN ~polled ELSE monitor_wait = 0
    /\ monitor_wait' = 0
    /\ polled' = FALSE
    /\ UNCHANGED cleared_for

\* `if not _monitor_running` finds the flag set: threading.Event().wait(1)
MonitorPoll ==
    /\ monitor_pc = "sleep"
    /\ monitor_wait > 0
    /\ ~polled
    /\ monitor_running
    /\ polled' = TRUE
    /\ UNCHANGED <<streams, workers, manifests, ret, app_pc, monitor_running, monitor_vars,
                   hc_vars, ref_vars, lock_vars, runner_vars, intent_vars, order_vars, monitor_wait, cleared_for>>

TimedStop ==
    /\ monitor_wait = 0
    /\ MonitorStopBody
    /\ \E d \in IF already_running(streams, health[monitor_idx].stream_id)
                THEN {0, STOP_GRACE}
                ELSE {0} : monitor_wait' = d
    /\ UNCHANGED <<polled, cleared_for>>

TimedStart(fault) ==
    /\ monitor_wait = 0
    /\ MonitorStartBody(fault)
    /\ monitor_wait' = WaitAfter(monitor_pc')
    /\ polled' = FALSE
    /\ UNCHANGED cleared_for

\* _monitor_thread.join(timeout=2) returns, because the monitor has
\* returned or because the timeout has passed, and stop_all_streams runs
TimedStopAll ==
    /\ monitor_pc = "exit" \/ cleared_for >= JOIN_TIMEOUT
    /\ LifespanStopAll

\* One time unit passes while the monitor waits.
ClockTick ==
    /\ monitor_wait > 0
    /\ monitor_pc = "sleep" => polled
    /\ monitor_wait' = monitor_wait - 1
    /\ polled' = FALSE
    /\ cleared_for' = IF monitor_running THEN cleared_for ELSE Min(cleared_for + 1, MaxClearedFor)
    /\ UNCHANGED <<streams, workers, manifests, ret, app_pc, monitor_running, monitor_vars,
                   hc_vars, ref_vars, lock_vars, runner_vars, intent_vars, order_vars>>

MonitorProgress ==
    \/ TimedHealthCheck
    \/ TimedExit
    \/ MonitorPoll
    \/ TimedStop
    \/ \E fault \in FaultKinds : TimedStart(fault)
    \/ ClockTick

NextMonitor ==
    \/ LifespanStartup
    \/ \E faults \in FaultKindAssignments : LifespanAutoStart(faults)
    \/ LifespanShutdown
    \/ TimedStopAll
    \/ TimedHealthCheck
    \/ TimedExit
    \/ MonitorPoll
    \/ TimedStop
    \/ \E fault \in FaultKinds : TimedStart(fault)
    \/ ClockTick
    \/ \E i \in 1..NumTypes : WorkerExit(i)
    \/ \E stream_id \in StreamIds : WorkerWritesManifest(stream_id)
    \/ Tick

\* The monitor thread is scheduled and time does not stop.
SpecMonitor == Init /\ [][NextMonitor]_vars /\ WF_vars(MonitorProgress)

\* ------------------------------------------- what the API callers asked for
\* The application with a record of the streams that an API caller has
\* stopped and that no caller has asked to start since.

IntentRest ==
    <<ret, manifests, app_pc, monitor_running, monitor_vars, hc_vars,
      ref_vars, lock_vars, clock_vars, runner_vars, order_vars>>

RegisteredIds(S) == {S[i].stream_id : i \in 1..Len(S)}

\* POST /stream/{stream_id}/stop
IntentStopStream(stream_id) ==
    /\ app_pc = "serving"
    /\ LET out == stop_stream(streams, workers, stream_id)
       IN  /\ Apply(out)
           /\ api_stopped' = IF out.ret.success THEN api_stopped \cup {stream_id} ELSE api_stopped
    /\ UNCHANGED IntentRest

\* POST /stream/stop
IntentStopAll ==
    /\ app_pc = "serving"
    /\ Apply(stop_all_streams(streams, workers))
    /\ api_stopped' = api_stopped \cup RegisteredIds(streams)
    /\ UNCHANGED IntentRest

\* POST /stream/{stream_id}/start
IntentStartStream(stream_id, fault) ==
    /\ app_pc = "serving"
    /\ Apply(start_stream(streams, workers, stream_id, fault))
    /\ api_stopped' = api_stopped \ {stream_id}
    /\ UNCHANGED IntentRest

\* POST /stream/start
IntentStartAll(faults) ==
    /\ app_pc = "serving"
    /\ Apply(start_all_streams(streams, workers, faults))
    /\ api_stopped' = {}
    /\ UNCHANGED IntentRest

\* A start succeeds or returns False because ffmpeg is not found.
IntentFaults == {NoFault, "which_None"}

NextIntent ==
    \/ LifespanStartup
    \/ \E faults \in [1..Len(noise_types) -> IntentFaults] : LifespanAutoStart(faults)
    \/ LifespanShutdown
    \/ LifespanStopAll
    \/ \E faults \in [1..Len(noise_types) -> IntentFaults] : IntentStartAll(faults)
    \/ IntentStopAll
    \/ \E stream_id \in StreamIds, fault \in IntentFaults : IntentStartStream(stream_id, fault)
    \/ \E stream_id \in StreamIds : IntentStopStream(stream_id)
    \/ MonitorHealthCheck
    \/ MonitorExit
    \/ MonitorStop
    \/ \E fault \in IntentFaults : MonitorStart(fault)
    \/ \E i \in 1..NumTypes : WorkerExit(i)
    \/ \E stream_id \in StreamIds : WorkerWritesManifest(stream_id)
    \/ Tick

SpecIntent == Init /\ [][NextIntent]_vars

\* ------------------------------------------------------ one runner in steps
\* One NoiseFFmpegRunner called by several threads, with the processes it
\* creates and the _read_stderr thread it starts with each.  start and stop
\* run inside `with self._lock` of the runner; _read_stderr takes no lock.
\* A process writes at most one line with "error" in it to its stderr.

RunnerRest ==
    <<streams, workers, manifests, ret, app_pc, monitor_running, monitor_vars, hc_vars,
      ref_vars, lock_vars, clock_vars, intent_vars, order_vars>>

\* self._process as the Popen handle of the other specifications
HandleOf(pid) == IF pid = NoPid THEN None ELSE procs[pid]

\* The pid Popen gives to the next process.
NextPid == CHOOSE p \in Pids : procs[p] = "unborn" /\ \A q \in 1..(p - 1) : procs[q] # "unborn"

RunnerReturn(t, r) ==
    /\ r_calls' = [r_calls EXCEPT ![t] = RunnerIdle]
    /\ r_ret' = r

\* start up to Popen: the test for a running process, mkdir, which, Popen
StartEnter(t, fault) ==
    /\ r_calls[t].pc = "idle"
    /\ r_lock = None
    /\ LET r == NoiseFFmpegRunner_start(HandleOf(r_process), fault)
       IN  IF r.spawned
           THEN /\ \E p \in Pids : procs[p] = "unborn"
                /\ r_process' = NextPid
                /\ procs' = [procs EXCEPT ![NextPid] = "live"]
                /\ r_lock' = t
                /\ r_calls' = [r_calls EXCEPT ![t] = [op |-> "start", pc |-> "thread", owned |-> NextPid]]
                /\ UNCHANGED r_ret
           ELSE /\ RunnerReturn(t, [op |-> "start", result |-> r.result])
                /\ UNCHANGED <<r_process, procs, r_lock>>
    /\ UNCHANGED <<r_last_error, stderr_of, drains, RunnerRest>>

\* self._stderr_thread = threading.Thread(...); self._stderr_thread.start()
StartThread(t) ==
    /\ r_lock = t
    /\ r_calls[t].pc = "thread"
    /\ drains' = [drains EXCEPT ![r_calls[t].owned] = [pc |-> "new", target |-> NoPid]]
    /\ r_calls' = [r_calls EXCEPT ![t].pc = "reset"]
    /\ UNCHANGED <<r_process, r_lock, r_last_error, r_ret, procs, stderr_of, RunnerRest>>

\* self._last_error = None; return True
StartReset(t) ==
    /\ r_lock = t
    /\ r_calls[t].pc = "reset"
    /\ r_last_error' = NoPid
    /\ r_lock' = None
    /\ RunnerReturn(t, [op |-> "start", result |-> "True"])
    /\ UNCHANGED <<r_process, procs, stderr_of, drains, RunnerRest>>

\* What stop returned, with the handle it found, the process it owned, the
\* handle it left and whether it had to kill.
StopReturned(result, before, owned, after, killed) ==
    [op |-> "stop", result |-> result, before |-> before, owned |-> owned,
     after |-> after, killed |-> killed]

\* stop up to terminate(): no handle, a process that has exited, or
\* terminate() and on to wait(timeout=5)
StopEnter(t) ==
    /\ r_calls[t].pc = "idle"
    /\ r_lock = None
    /\ LET before == HandleOf(r_process)
           r == NoiseFFmpegRunner_stop(before)
           after == IF r.process = None THEN NoPid ELSE r_process
       IN  IF r.killed
           THEN /\ r_lock' = t
                /\ r_calls' = [r_calls EXCEPT ![t] = [op |-> "stop", pc |-> "grace", owned |-> r_process]]
                /\ UNCHANGED <<r_process, r_ret>>
           ELSE /\ r_process' = after
                /\ RunnerReturn(t, StopReturned(r.result, before, r_process, after, FALSE))
                /\ UNCHANGED r_lock
    /\ UNCHANGED <<r_last_error, procs, stderr_of, drains, RunnerRest>>

\* wait(timeout=5) returns: the process has exited within the grace period
StopWaitReturns(t) ==
    /\ r_lock = t
    /\ r_calls[t].pc = "grace"
    /\ procs[r_calls[t].owned] = "exited"
    /\ r_process' = NoPid
    /\ r_lock' = None
    /\ RunnerReturn(t, StopReturned(TRUE, "live", r_calls[t].owned, NoPid, FALSE))
    /\ UNCHANGED <<r_last_error, procs, stderr_of, drains, RunnerRest>>

\* except subprocess.TimeoutExpired, without the kill
AfterTimeoutExpired_no_kill == "live"

\* except subprocess.TimeoutExpired: self._process.kill(); self._process.wait()
AfterTimeoutExpired == "exited"

\* wait(timeout=5) raises TimeoutExpired: the process is still running
StopTimeoutExpired(t) ==
    /\ r_lock = t
    /\ r_calls[t].pc = "grace"
    /\ procs[r_calls[t].owned] = "live"
    /\ procs' = [procs EXCEPT ![r_calls[t].owned] = AfterTimeoutExpired]
    /\ r_process' = NoPid
    /\ r_lock' = None
    /\ RunnerReturn(t, StopReturned(TRUE, "live", r_calls[t].owned, NoPid, TRUE))
    /\ UNCHANGED <<r_last_error, stderr_of, drains, RunnerRest>>

\* get_status: the fields read under the lock
RunnerGetStatus(t) ==
    /\ r_calls[t].pc = "idle"
    /\ r_lock = None
    /\ RunnerReturn(t, [op |-> "get_status",
                        running |-> NoiseFFmpegRunner_get_status(HandleOf(r_process)).running,
                        error |-> r_last_error])
    /\ UNCHANGED <<r_process, r_lock, r_last_error, procs, stderr_of, drains, RunnerRest>>

\* _read_stderr: `if not self._process or not self._process.stderr: return`,
\* and the stream it goes on to read
DrainBegin(p) ==
    /\ drains[p].pc = "new"
    /\ drains' = [drains EXCEPT ![p] = IF r_process = NoPid
                                       THEN [pc |-> "done", target |-> NoPid]
                                       ELSE [pc |-> "read", target |-> r_process]]
    /\ UNCHANGED <<r_process, r_lock, r_last_error, r_calls, r_ret, procs, stderr_of, RunnerRest>>

\* readline() returns the error line
DrainReadLine(p) ==
    /\ drains[p].pc = "read"
    /\ stderr_of[drains[p].target] = "line"
    /\ stderr_of' = [stderr_of EXCEPT ![drains[p].target] = "read"]
    /\ drains' = [drains EXCEPT ![p].pc = "got"]
    /\ UNCHANGED <<r_process, r_lock, r_last_error, r_calls, r_ret, procs, RunnerRest>>

\* readline() returns b"" at the end of the stream of a process that exited
DrainEndOfFile(p) ==
    /\ drains[p].pc = "read"
    /\ stderr_of[drains[p].target] # "line"
    /\ procs[drains[p].target] = "exited"
    /\ drains' = [drains EXCEPT ![p].pc = "done"]
    /\ UNCHANGED <<r_process, r_lock, r_last_error, r_calls, r_ret, procs, stderr_of, RunnerRest>>

\* self._last_error = decoded_line
DrainRecord(p) ==
    /\ drains[p].pc = "got"
    /\ r_last_error' = drains[p].target
    /\ stderr_of' = [stderr_of EXCEPT ![drains[p].target] = "recorded"]
    /\ drains' = [drains EXCEPT ![p].pc = "read"]
    /\ UNCHANGED <<r_process, r_lock, r_calls, r_ret, procs, RunnerRest>>

\* A process writes its error line.
ProcLogsError(p) ==
    /\ procs[p] = "live"
    /\ stderr_of[p] = "empty"
    /\ stderr_of' = [stderr_of EXCEPT ![p] = "line"]
    /\ UNCHANGED <<r_process, r_lock, r_last_error, r_calls, r_ret, procs, drains, RunnerRest>>

\* A process exits, on its own or on the SIGTERM of terminate().
ProcExit(p) ==
    /\ procs[p] = "live"
    /\ procs' = [procs EXCEPT ![p] = "exited"]
    /\ UNCHANGED <<r_process, r_lock, r_last_error, r_calls, r_ret, stderr_of, drains, RunnerRest>>

NextRunner ==
    \/ \E t \in Threads, fault \in FaultKinds : StartEnter(t, fault)
    \/ \E t \in Threads : StartThread(t)
    \/ \E t \in Threads : StartReset(t)
    \/ \E t \in Threads : StopEnter(t)
    \/ \E t \in Threads : StopWaitReturns(t)
    \/ \E t \in Threads : StopTimeoutExpired(t)
    \/ \E t \in Threads : RunnerGetStatus(t)
    \/ \E p \in Pids : DrainBegin(p)
    \/ \E p \in Pids : DrainReadLine(p)
    \/ \E p \in Pids : DrainEndOfFile(p)
    \/ \E p \in Pids : DrainRecord(p)
    \/ \E p \in Pids : ProcLogsError(p)
    \/ \E p \in Pids : ProcExit(p)

SpecRunner == Init /\ [][NextRunner]_vars

\* ------------------------------------------------- the order of the locks
\* The threads that call the registry, with the lock of the registry and the
\* locks of the runners.  A method of the registry runs inside the lock of
\* the registry and calls methods of the runners, each of which runs inside
\* the lock of its runner: per record at most two calls, first is_running or
\* get_status, then start, stop or (in get_status) is_running.  GET
\* /stream/{stream_id} calls get_stream and then to_dict on the record, which
\* takes the lock of the runner outside the lock of the registry.
\* _read_stderr takes no lock.  A runner lock stands for the locks of all
\* runners created for one stream id.  A worker that stop() waits for exits
\* through RunnerStopDone.

OrderRest ==
    <<manifests, ret, app_pc, monitor_running, monitor_vars, hc_vars, ref_vars, clock_vars,
      runner_vars, intent_vars>>

\* A start succeeds or Popen raises an OSError.
OrderFaults == {NoFault, "Popen_OSError"}

StartOps == {"start_stream", "start_all_streams"}

StopOps == {"stop_stream", "stop_all_streams"}

\* The number of records the body of the method goes through.
EntryCount(t) ==
    IF calls[t].op = "start_stream" THEN 1
    ELSE IF calls[t].op = "stop_stream"
    THEN (IF IndexOf(streams, calls[t].stream_id) # 0 THEN 1 ELSE 0)
    ELSE IF calls[t].op = "start_all_streams" THEN Len(noise_types)
    ELSE IF calls[t].op = "get_stream" THEN 0
    ELSE Len(streams)

\* The stream of the record the body is at.
EntryId(t) ==
    IF calls[t].op \in SingleOps THEN calls[t].stream_id
    ELSE IF calls[t].op = "start_all_streams" THEN stream_id_of(noise_types[calls[t].k])
    ELSE streams[calls[t].k].stream_id

AtEntry(t) == lock = t /\ calls[t].pc = "body" /\ calls[t].k <= EntryCount(t)

\* start_all_streams calls is_running only `if stream_id in self._streams`.
HasFirst(t) == calls[t].op = "start_all_streams" => IndexOf(streams, EntryId(t)) # 0

\* The second call on the record, after what the first returned.
NeedsSecond(t) ==
    IF calls[t].op \in StartOps THEN ~already_running(streams, EntryId(t))
    ELSE IF calls[t].op \in StopOps THEN already_running(streams, EntryId(t))
    ELSE calls[t].op = "get_status"

\* leaving `with self._lock` of a runner without releasing the lock
ReleasedBy_kept(t) == t

\* leaving `with self._lock` of a runner
ReleasedBy(t) == None

NextEntry(t) == calls' = [calls EXCEPT ![t].pc = "body", ![t].k = @ + 1]

\* The thread enters the lock of the runner for the first call.
RunnerEnterFirst(t) ==
    /\ AtEntry(t)
    /\ HasFirst(t)
    /\ runner_locks[EntryId(t)] = None
    /\ runner_locks' = [runner_locks EXCEPT ![EntryId(t)] = t]
    /\ calls' = [calls EXCEPT ![t].pc = "first"]
    /\ UNCHANGED <<streams, workers, lock, drain_pc, OrderRest>>

\* is_running or get_status returns.
RunnerLeaveFirst(t) ==
    /\ lock = t
    /\ calls[t].pc = "first"
    /\ runner_locks' = [runner_locks EXCEPT ![EntryId(t)] = ReleasedBy(t)]
    /\ IF NeedsSecond(t)
       THEN calls' = [calls EXCEPT ![t].pc = "second_wait"]
       ELSE NextEntry(t)
    /\ UNCHANGED <<streams, workers, lock, drain_pc, OrderRest>>

\* The thread enters the lock of the runner for the second call; stop()
\* sends terminate() and waits for the worker inside the lock.
RunnerEnterSecond(t) ==
    /\ lock = t
    /\ calls[t].pc = "second_wait" \/ (AtEntry(t) /\ ~HasFirst(t))
    /\ runner_locks[EntryId(t)] = None
    /\ runner_locks' = [runner_locks EXCEPT ![EntryId(t)] = t]
    /\ calls' = [calls EXCEPT ![t].pc = IF calls[t].op \in StopOps THEN "grace" ELSE "second"]
    /\ UNCHANGED <<streams, workers, lock, drain_pc, OrderRest>>

\* start() returns or raises: the method of the registry goes on to the
\* next record, or leaves its loop with the exception.
RunnerStartDone(t, fault) ==
    /\ lock = t
    /\ calls[t].pc = "second"
    /\ calls[t].op \in StartOps
    /\ runner_locks' = [runner_locks EXCEPT ![EntryId(t)] = ReleasedBy(t)]
    /\ IF calls[t].op = "start_stream"
       THEN LET out == start_stream(streams, workers, calls[t].stream_id, fault)
            IN  /\ Apply(out)
                /\ NextEntry(t)
       ELSE LET e == start_all_entry(calls[t].k, streams, workers, fault)
            IN  IF e.status = "raise"
                THEN /\ calls' = [calls EXCEPT ![t].pc = "body", ![t].k = EntryCount(t) + 1]
                     /\ UNCHANGED <<streams, workers>>
                ELSE /\ Apply(e)
                     /\ NextEntry(t)
    /\ UNCHANGED <<lock, drain_pc, OrderRest>>

\* is_running of get_status returns.
RunnerQueryDone(t) ==
    /\ lock = t
    /\ calls[t].pc = "second"
    /\ calls[t].op = "get_status"
    /\ runner_locks' = [runner_locks EXCEPT ![EntryId(t)] = ReleasedBy(t)]
    /\ NextEntry(t)
    /\ UNCHANGED <<streams, workers, lock, drain_pc, OrderRest>>

\* The worker has exited after terminate() or kill(): stop() returns.
RunnerStopDone(t) ==
    /\ lock = t
    /\ calls[t].pc = "grace"
    /\ runner_locks' = [runner_locks EXCEPT ![EntryId(t)] = ReleasedBy(t)]
    /\ IF calls[t].op = "stop_stream"
       THEN Apply(stop_stream(streams, workers, calls[t].stream_id))
       ELSE Apply(stop_all_entry(calls[t].k, streams, workers))
    /\ NextEntry(t)
    /\ UNCHANGED <<lock, drain_pc, OrderRest>>

\* The method of the registry returns; the endpoint goes on to to_dict of
\* the record that get_stream returned.
OrderReturn(t) ==
    /\ lock = t
    /\ calls[t].pc = "body"
    /\ calls[t].k > EntryCount(t)
    /\ lock' = None
    /\ calls' = [calls EXCEPT ![t] =
                    IF calls[t].op = "get_stream" /\ IndexOf(streams, calls[t].stream_id) # 0
                    THEN [calls[t] EXCEPT !.pc = "to_dict_wait"]
                    ELSE Idle]
    /\ UNCHANGED <<streams, workers, runner_locks, drain_pc, OrderRest>>

\* to_dict: runner.get_status() enters the lock of the runner
ToDictEnter(t) ==
    /\ calls[t].pc = "to_dict_wait"
    /\ runner_locks[calls[t].stream_id] = None
    /\ runner_locks' = [runner_locks EXCEPT ![calls[t].stream_id] = t]
    /\ calls' = [calls EXCEPT ![t].pc = "to_dict"]
    /\ UNCHANGED <<streams, workers, lock, drain_pc, OrderRest>>

ToDictLeave(t) ==
    /\ calls[t].pc = "to_dict"
    /\ runner_locks' = [runner_locks EXCEPT ![calls[t].stream_id] = ReleasedBy(t)]
    /\ calls' = [calls EXCEPT ![t] = Idle]
    /\ UNCHANGED <<streams, workers, lock, drain_pc, OrderRest>>

\* readline() returns a line with "error" in it, written by a live worker
StderrLine(id) ==
    /\ drain_pc[id] = "read"
    /\ workers[id] > 0
    /\ drain_pc' = [drain_pc EXCEPT ![id] = "got"]
    /\ UNCHANGED <<streams, workers, lock, calls, runner_locks, OrderRest>>

\* self._last_error = decoded_line
StderrRecord(id) ==
    /\ drain_pc[id] = "got"
    /\ drain_pc' = [drain_pc EXCEPT ![id] = "read"]
    /\ UNCHANGED <<streams, workers, lock, calls, runner_locks, OrderRest>>

\* A worker exits on its own, unless a thread is about to stop it.
OrderWorkerExit(i) ==
    /\ i \in 1..Len(streams)
    /\ \A t \in Threads :
          (calls[t].op \in StopOps /\ calls[t].pc \in {"second_wait", "grace"})
             => EntryId(t) # streams[i].stream_id
    /\ WorkerExit(i)

\* The endpoints are coroutines of one event loop, which also runs
\* lifespan: thread t1 makes their calls.  Thread t2 is the monitor, which
\* calls health_check, stop_stream and start_stream.
OpsOf(t) ==
    IF t = "t1" THEN BatchOps \cup SingleOps \cup QueryOps
    ELSE {"health_check", "stop_stream", "start_stream"}

\* The steps of a thread in which it waits for no lock.
ThreadRuns(t) ==
    \/ RunnerLeaveFirst(t)
    \/ \E fault \in OrderFaults : RunnerStartDone(t, fault)
    \/ RunnerQueryDone(t)
    \/ RunnerStopDone(t)
    \/ OrderReturn(t)
    \/ ToDictLeave(t)

NextOrder ==
    \/ \E t \in Threads :
          \E op \in OpsOf(t) \cap (BatchOps \cup {"get_status", "health_check"}) : Invoke(t, op, <<>>)
    \/ \E t \in Threads, stream_id \in StreamIds :
          \E op \in OpsOf(t) \cap (SingleOps \cup {"get_stream"}) : Invoke(t, op, stream_id)
    \/ \E t \in Threads : Acquire(t)
    \/ \E t \in Threads : RunnerEnterFirst(t)
    \/ \E t \in Threads : RunnerLeaveFirst(t)
    \/ \E t \in Threads : RunnerEnterSecond(t)
    \/ \E t \in Threads, fault \in OrderFaults : RunnerStartDone(t, fault)
    \/ \E t \in Threads : RunnerQueryDone(t)
    \/ \E t \in Threads : RunnerStopDone(t)
    \/ \E t \in Threads : OrderReturn(t)
    \/ \E t \in Threads : ToDictEnter(t)
    \/ \E t \in Threads : ToDictLeave(t)
    \/ \E id \in StreamIds : StderrLine(id)
    \/ \E id \in StreamIds : StderrRecord(id)
    \/ \E i \in 1..NumTypes : OrderWorkerExit(i)

\* The steps of a thread in which it gets the lock it waits for.
ThreadEnters(t) ==
    \/ Acquire(t)
    \/ RunnerEnterFirst(t)
    \/ RunnerEnterSecond(t)
    \/ ToDictEnter(t)

\* Every thread is scheduled, a worker exits after terminate() or kill(),
\* and a thread that finds a lock free again and again gets it in the end.
OrderFairness == \A t \in Threads : SF_vars(ThreadRuns(t) \/ ThreadEnters(t))

SpecOrder == Init /\ [][NextOrder]_vars /\ OrderFairness

\* ------------------------------------------- health evaluation on its own
\* StreamInfo.health_check and the aggregate of
\* NoiseStreamManager.health_check applied to inputs drawn at the start.

ManifestInputs ==
    {NoManifest} \cup {Manifest(TRUE, age, e) : age \in 0..MaxInputAge, e \in BOOLEAN}

StreamHealthInputs ==
    {[kind |-> "stream",
      info |-> [create_stream_for_noise(noise_types[1]) EXCEPT !.state = st, !.process = p],
      manifest |-> m] : st \in StreamState, p \in ProcessValues, m \in ManifestInputs}

StatusValues == {"healthy", "unhealthy", "stopped", "starting"}

SummaryInputs ==
    {[kind |-> "summary", stream_health |-> sh] :
        sh \in UNION {[1..k -> [status : StatusValues]] : k \in 0..MaxSummaryLen}}

InitHealth ==
    /\ InitProgram
    /\ InitExt
    /\ hc_in \in StreamHealthInputs \cup SummaryInputs
    /\ hc_out = NoOutput

EvalStreamHealth ==
    /\ hc_in.kind = "stream"
    /\ ~hc_out.done
    /\ hc_out' = [done |-> TRUE, result |-> StreamInfo_health_check(hc_in.info, hc_in.manifest)]
    /\ UNCHANGED <<streams, workers, manifests, ret, app_pc, monitor_running, monitor_vars, hc_in, ext_vars>>

EvalHealthSummary ==
    /\ hc_in.kind = "summary"
    /\ ~hc_out.done
    /\ hc_out' = [done |-> TRUE, result |-> health_summary(hc_in.stream_health)]
    /\ UNCHANGED <<streams, workers, manifests, ret, app_pc, monitor_running, monitor_vars, hc_in, ext_vars>>

NextHealth ==
    \/ EvalStreamHealth
    \/ EvalHealthSummary

SpecHealth == InitHealth /\ [][NextHealth]_vars

\* ==================================================================== claims

\* What C1 asks of the record of stream_id in registry S: it exists and is
\* RUNNING with a live worker, or ERROR with a non-empty error message.
Resolved(S, stream_id) ==
    /\ IndexOf(S, stream_id) # 0
    /\ LET info == S[IndexOf(S, stream_id)]
       IN  \/ info.state = RUNNING /\ info.process = "live"
           \/ info.state = ERROR /\ info.error_message \notin {None, ""}

\* C1: for every configured noise type and every reachable registry state,
\* once start_stream("noise_" + t) has finished, whatever went wrong in
\* the spawn attempt, the record is RUNNING with a live worker or ERROR
\* with a non-empty error message, never left in STARTING.
C1_StartResolves ==
    [][\A stream_id \in StreamIds :
          (\E fault \in Faults : CallStartStream(stream_id, fault))
              => Resolved(streams', stream_id)]_vars

\* C2: stop_stream is idempotent.  When the last call was stop_stream(id)
\* on a registered stream, it returned success, a second stop_stream(id)
\* returns success and changes nothing, and the runner holds no process
\* handle.
C2_StopIdempotent ==
    \A stream_id \in StreamIds :
        (ret.op = "stop_stream" /\ ret.stream_id = stream_id /\ IndexOf(streams, stream_id) # 0)
            => LET second == stop_stream(streams, workers, stream_id)
               IN  /\ ret.success
                   /\ second.ret.success
                   /\ second.streams = streams
                   /\ second.workers = workers
                   /\ streams[IndexOf(streams, stream_id)].process = None

AllNoFault == [k \in 1..Len(noise_types) |-> NoFault]

\* Every configured stream has a record of registry S in `state`, with a
\* live worker (W counts one) or with none.
AllIn(S, W, state, live) ==
    /\ Len(S) = Len(noise_types)
    /\ \A k \in 1..Len(noise_types) :
          LET stream_id == stream_id_of(noise_types[k])
          IN  /\ IndexOf(S, stream_id) # 0
              /\ S[IndexOf(S, stream_id)].state = state
              /\ (S[IndexOf(S, stream_id)].process = "live") <=> live
              /\ W[stream_id] = (IF live THEN 1 ELSE 0)

\* C7: with an empty registry and a backend on which nothing goes wrong,
\* start_all_streams returns started = n, failed = 0, total_streams = n and
\* leaves every record RUNNING with a live worker; stop_all_streams right
\* after it (no worker having exited) returns stopped = n and leaves every
\* record STOPPED with no live worker.
C7_StartAllStopAll ==
    streams = <<>> =>
        LET n == Len(noise_types)
            started == start_all_streams(streams, workers, AllNoFault)
            stopped == stop_all_streams(started.streams, started.workers)
        IN  /\ ~started.ret.raised
            /\ started.ret.started = n
            /\ started.ret.failed = 0
            /\ started.ret.total_streams = n
            /\ AllIn(started.streams, started.workers, RUNNING, TRUE)
            /\ stopped.ret.stopped = n
            /\ AllIn(stopped.streams, stopped.workers, STOPPED, FALSE)
            /\ \A k \in 1..n : stopped.streams[k].process = None

\* stop_all_streams has returned stopped = n and every record is STOPPED
\* with no worker.
C7_Witness ==
    /\ ret.op = "stop_all_streams"
    /\ ret.stopped = Len(noise_types)
    /\ AllIn(streams, workers, STOPPED, FALSE)

\* C8: when, on an empty registry, runner.start returns false for the
\* entries F and succeeds for the others, start_all_streams returns
\* started = n - |F| and failed = |F|, every record of F is ERROR with a
\* non-empty error message and every other record is RUNNING with its
\* worker live: nothing is rolled back.
C8_PartialFailure ==
    streams = <<>> =>
        \A faults \in [1..Len(noise_types) -> {NoFault} \cup ReturnFalseFaults] :
            LET n == Len(noise_types)
                F == {k \in 1..n : faults[k] # NoFault}
                out == start_all_streams(streams, workers, faults)
            IN  /\ ~out.ret.raised
                /\ out.ret.started = n - Cardinality(F)
                /\ out.ret.failed = Cardinality(F)
                /\ Len(out.streams) = n
                /\ \A k \in 1..n :
                      LET stream_id == stream_id_of(noise_types[k])
                          info == out.streams[IndexOf(out.streams, stream_id)]
                      IN  /\ IndexOf(out.streams, stream_id) # 0
                          /\ k \in F =>
                                /\ info.state = ERROR
                                /\ info.error_message \notin {None, ""}
                                /\ info.process # "live"
                                /\ out.workers[stream_id] = 0
                          /\ k \notin F =>
                                /\ info.state = RUNNING
                                /\ info.process = "live"
                                /\ out.workers[stream_id] = 1

\* start_all_streams has returned with one entry failed and the others
\* started, the failed record in ERROR beside a RUNNING one with its worker.
C8_Witness ==
    /\ ret.op = "start_all_streams"
    /\ ~ret.raised
    /\ ret.failed = 1
    /\ ret.started = Len(noise_types) - 1
    /\ \E i \in 1..Len(streams) : streams[i].state = ERROR /\ streams[i].error_message = FailedToStart
    /\ \E i \in 1..Len(streams) : streams[i].state = RUNNING /\ streams[i].process = "live"

\* stream_id decodes to a configured noise type: "noise_" + t, t in the
\* lower-cased configured list.
Decodes(stream_id) == \E k \in 1..Len(noise_types) : stream_id = Str_noise_ \o noise_types[k]

\* C9: start_stream(id) for an id with no record that does not decode to a
\* configured noise type returns success = false with "Stream not found"
\* or "Invalid noise type", creates no record, spawns nothing and leaves
\* every record unchanged; for "noise_" + t with t configured and no
\* record it creates exactly the record keyed by that id.
C9_LazyCreation ==
    [][\A stream_id \in RequestIds :
          (IndexOf(streams, stream_id) = 0 /\ \E fault \in Faults : CallStartStream(stream_id, fault))
              => IF Decodes(stream_id)
                 THEN /\ Len(streams') = Len(streams) + 1
                      /\ SubSeq(streams', 1, Len(streams)) = streams
                      /\ streams'[Len(streams')].stream_id = stream_id
                 ELSE /\ ~ret'.raised
                      /\ ~ret'.success
                      /\ ret'.text \in {"Stream not found", "Invalid noise type"}
                      /\ streams' = streams
                      /\ workers' = workers]_vars

\* C10: NoiseFFmpegRunner.start never raises: on a runner with no live
\* process, whatever goes wrong in start (executable missing,
\* FileNotFoundError, SubprocessError, any other OSError of Popen or of the
\* creation of the output directory), it returns false and the runner owns
\* no live process.
C10_StartNeverRaises ==
    \A i \in 1..Len(streams) :
        \A fault \in ReturnFalseFaults \cup RaisingStartFaults :
            streams[i].process # "live" =>
                LET r == NoiseFFmpegRunner_start(streams[i].process, fault)
                IN  r.result = "False" /\ r.process # "live"

\* C3: in every reachable state of the application (API calls, lifespan,
\* monitor and worker exits interleaved at will) no stream identifier has
\* more than one live worker process, and start_all_streams, whatever goes
\* wrong for the other entries, spawns nothing for a registered stream
\* whose worker is live and reports it as "already_running".
C3_OneWorkerPerStream ==
    /\ \A stream_id \in StreamIds : workers[stream_id] <= 1
    /\ \A faults \in FaultAssignments :
          LET out == start_all_streams(streams, workers, faults)
          IN  \A k \in 1..Len(noise_types) :
                 LET stream_id == stream_id_of(noise_types[k])
                 IN  (IndexOf(streams, stream_id) # 0 /\ streams[IndexOf(streams, stream_id)].process = "live")
                         => /\ out.workers[stream_id] = workers[stream_id]
                            /\ out.streams[IndexOf(out.streams, stream_id)] = streams[IndexOf(streams, stream_id)]
                            /\ (~out.ret.raised) =>
                                   out.ret.streams[k] = [stream_id |-> stream_id, status |-> "already_running"]

\* Every configured stream is registered with its worker live while the
\* application serves, the monitor having restarted a stream in the cycle
\* it is in: the state a further start_all_streams finds.
C3_Witness ==
    /\ app_pc = "serving"
    /\ \A stream_id \in StreamIds :
          /\ workers[stream_id] = 1
          /\ IndexOf(streams, stream_id) # 0
          /\ streams[IndexOf(streams, stream_id)].process = "live"
    /\ \E j \in 1..Len(monitor_calls) : monitor_calls[j][1] = "start_stream"

\* The calls one cycle owes to the health summary h: stop_stream then
\* start_stream for each entry that is unhealthy with process_running, in
\* the order of the summary, and nothing for the other entries.
RECURSIVE ExpectedCalls(_)
ExpectedCalls(h) ==
    IF h = <<>>
    THEN <<>>
    ELSE (IF NeedsRestart(Head(h))
          THEN <<<<"stop_stream", Head(h).stream_id>>, <<"start_stream", Head(h).stream_id>>>>
          ELSE <<>>) \o ExpectedCalls(Tail(h))

\* C4: when a monitor cycle ends, the calls it has issued are exactly one
\* stop_stream(id) followed by one start_stream(id) for each stream that
\* the health summary taken at the start of the cycle reports unhealthy
\* with process_running true, and no call for any other stream.
C4_CycleRestartsEachUnhealthyLive ==
    [][/\ (monitor_pc = "start" /\ monitor_pc' \in {"sleep", "backoff"})
            => monitor_calls' = ExpectedCalls(health)
       /\ (AtWhileTest /\ monitor_running /\ monitor_pc' = "sleep" /\ MonitorHealthCheck)
            => monitor_calls' = ExpectedCalls(MonitorView(health_check(streams, manifests).streams))]_vars

\* C5: StreamInfo.health_check is decided by (state, process liveness,
\* manifest existence, manifest age) alone: "healthy" iff state = RUNNING,
\* the process is live, the manifest is there and its age is below 10;
\* "unhealthy" when RUNNING and live with the manifest missing or aged 10 or
\* more; "stopped" for STOPPED; "starting" for STARTING; "unhealthy" for
\* RUNNING with a dead process and for ERROR.  (A manifest whose stat()
\* fails has vanished and counts as missing.)
C5_HealthClassification ==
    (hc_in.kind = "stream" /\ hc_out.done) =>
        LET state == hc_in.info.state
            live == hc_in.info.process = "live"
            present == hc_in.manifest.exists /\ ~hc_in.manifest.stat_error
            age == hc_in.manifest.age
            status == hc_out.result.status
        IN  /\ (status = "healthy") <=> (state = RUNNING /\ live /\ present /\ age < 10)
            /\ (state = RUNNING /\ live /\ (~present \/ age >= 10)) => status = "unhealthy"
            /\ state = STOPPED => status = "stopped"
            /\ state = STARTING => status = "starting"
            /\ (state = RUNNING /\ ~live) => status = "unhealthy"
            /\ state = ERROR => status = "unhealthy"
            /\ hc_out.result.process_running = live

\* A RUNNING record with a live worker whose manifest is 9 units old was
\* evaluated and found healthy.
C5_Witness ==
    /\ hc_in.kind = "stream"
    /\ hc_out.done
    /\ hc_in.info.state = RUNNING
    /\ hc_in.info.process = "live"
    /\ hc_in.manifest.exists
    /\ ~hc_in.manifest.stat_error
    /\ hc_in.manifest.age = 9
    /\ hc_out.result.status = "healthy"

\* C6: the aggregate status of NoiseStreamManager.health_check is
\* "degraded" if some stream is unhealthy; else "healthy" if some stream is
\* healthy; else "stopped" if there are streams and all are stopped; else
\* "no_streams" if there are none; else "unknown"; total is the number of
\* streams and healthy + stopped + unhealthy <= total.
C6_AggregateStatus ==
    (hc_in.kind = "summary" /\ hc_out.done) =>
        LET sh == hc_in.stream_health
            r == hc_out.result
            Some(status) == \E i \in 1..Len(sh) : sh[i].status = status
            All(status) == \A i \in 1..Len(sh) : sh[i].status = status
        IN  /\ r.status =
                   IF Some("unhealthy") THEN "degraded"
                   ELSE IF Some("healthy") THEN "healthy"
                   ELSE IF Len(sh) > 0 /\ All("stopped") THEN "stopped"
                   ELSE IF Len(sh) = 0 THEN "no_streams"
                   ELSE "unknown"
            /\ r.summary.total = Len(sh)
            /\ r.summary.healthy + r.summary.stopped + r.summary.unhealthy <= r.summary.total
            /\ (r.summary.unhealthy > 0) <=> Some("unhealthy")
            /\ (r.summary.healthy > 0) <=> Some("healthy")
            /\ (r.summary.stopped = r.summary.total) <=> All("stopped")

\* An aggregate over a healthy and an unhealthy stream came out "degraded".
C6_Witness ==
    /\ hc_in.kind = "summary"
    /\ hc_out.done
    /\ hc_out.result.status = "degraded"
    /\ hc_out.result.summary.healthy > 0
    /\ hc_out.result.summary.unhealthy > 0

\* C11: what a caller obtained from get_stream, get_streams, get_status or
\* health_check never changes afterwards through a start_stream,
\* stop_stream, start_all_streams or stop_all_streams of another caller:
\* state, started_at and error_message read in the result are those it
\* showed when it was obtained.
C11_ResultsAreCopies == held.kind # None => View(streams, held) = held.seen

\* C12: a status query for stream A (get_stream(A), get_status,
\* health_check) does not wait for an operation in flight on another
\* stream B: while stop_stream(B) waits for its terminated worker, a query
\* that was invoked can enter the registry and complete.
C12_QueryNotBlocked ==
    \A t \in Threads, u \in Threads :
        (/\ calls[t].op = "stop_stream"
         /\ calls[t].pc = "grace"
         /\ calls[u].op \in QueryOps
         /\ calls[u].pc = "acquire"
         /\ calls[u].op = "get_stream" => calls[u].stream_id # calls[t].stream_id)
            => ENABLED Acquire(u)

\* A thread is between the first and the last entry of a batch.
InBatch(t) == lock = t /\ calls[t].op \in BatchOps /\ calls[t].pc = "body"

\* C13: start_all_streams and stop_all_streams are atomic for the other
\* registry operations: while a thread is between the first and the last
\* entry of a batch, no other thread is inside the body of start_stream,
\* stop_stream, start_all_streams, stop_all_streams, get_stream, get_status
\* or health_check; the others have at most invoked theirs and wait.
C13_BatchAtomic ==
    \A t \in Threads : \A u \in Threads \ {t} :
        InBatch(t) => calls[u].pc \in {"idle", "acquire"}

\* A batch is past its first entry while another thread has invoked an
\* operation and waits to enter.
C13_Witness ==
    \E t \in Threads : \E u \in Threads \ {t} :
        /\ InBatch(t)
        /\ calls[t].k = 2
        /\ calls[u].pc = "acquire"
        /\ calls[u].op = "start_stream"

\* stream_id is RUNNING with a live worker and a manifest that is missing
\* or stale.
UnhealthyLive(stream_id) ==
    /\ IndexOf(streams, stream_id) # 0
    /\ streams[IndexOf(streams, stream_id)].state = RUNNING
    /\ streams[IndexOf(streams, stream_id)].process = "live"
    /\ ~manifest_fresh_of(manifests[stream_id])

\* The monitor has just issued stop_stream and start_stream for stream_id,
\* and the record is RUNNING with a new worker or ERROR.
Replaced(stream_id) ==
    /\ IndexOf(streams, stream_id) # 0
    /\ Len(monitor_calls) >= 2
    /\ monitor_calls[Len(monitor_calls) - 1] = <<"stop_stream", stream_id>>
    /\ monitor_calls[Len(monitor_calls)] = <<"start_stream", stream_id>>
    /\ LET info == streams[IndexOf(streams, stream_id)]
       IN  \/ info.state = RUNNING /\ info.process = "live"
           \/ info.state = ERROR

\* The stream did not stay as it was: its worker exited on its own or wrote
\* the manifest anew.
NoLongerStale(stream_id) ==
    /\ IndexOf(streams, stream_id) # 0
    /\ \/ streams[IndexOf(streams, stream_id)].process = "exited"
       \/ manifest_fresh_of(manifests[stream_id])

\* C14: under fair scheduling of the monitor, a stream that is RUNNING with
\* a live worker and a missing or stale manifest, and stays so while the
\* running flag stays set, is eventually restarted by the monitor:
\* stop_stream then start_stream are issued for it and its worker is a newly
\* spawned one, or the record is ERROR when the spawn failed.
C14_StaleStreamRecovered ==
    \A stream_id \in StreamIds :
        (UnhealthyLive(stream_id) /\ monitor_running)
            ~> (Replaced(stream_id) \/ NoLongerStale(stream_id) \/ ~monitor_running)

\* C15: the monitor survives a faulting cycle.  It never ends while the
\* running flag is set, the wait after an exception is at most
\* BACKOFF_DELAY time units, and, scheduled fairly, a monitor that backs
\* off with the flag set takes another health summary unless the flag is
\* cleared first.
C15_MonitorSurvivesFaults ==
    /\ [](monitor_pc = "exit" => ~monitor_running)
    /\ [](monitor_pc = "backoff" => monitor_wait <= BACKOFF_DELAY)
    /\ (monitor_pc = "backoff" /\ monitor_running)
           ~> (~monitor_running \/ monitor_pc \in {"stop", "sleep"})

\* start_stream has raised in a cycle and the monitor is in the wait of the
\* except clause with the flag set.
C15_Witness ==
    /\ monitor_pc = "backoff"
    /\ monitor_running
    /\ monitor_wait = BACKOFF_DELAY
    /\ monitor_calls # <<>>

\* C16: once the running flag is cleared the monitor thread ends within
\* about one time unit, from wherever it is in its loop: it never lives on
\* for more than POLL_PERIOD time units after the flag was cleared.
C16_CancelLatency == cleared_for <= POLL_PERIOD

\* The edges of the state machine of a stream.
Edges ==
    {<<STOPPED, STARTING>>, <<STARTING, RUNNING>>, <<STARTING, ERROR>>,
     <<RUNNING, STOPPED>>, <<ERROR, STARTING>>}

\* Every change of value along a sequence of states is an edge.
AlongEdges(trail) ==
    \A j \in 1..(Len(trail) - 1) : trail[j] = trail[j + 1] \/ <<trail[j], trail[j + 1]>> \in Edges

\* C17: the state field of a record changes only along STOPPED->STARTING,
\* STARTING->RUNNING, STARTING->ERROR, RUNNING->STOPPED and ERROR->STARTING:
\* in every reachable registry state, the values that start_stream and
\* stop_stream assign to the state of a registered record, one after the
\* other and whatever goes wrong, follow these edges from the state the
\* record has; in particular none goes from RUNNING to STARTING.
C17_StateMachineEdges ==
    \A i \in 1..Len(streams) :
        LET stream_id == streams[i].stream_id
        IN  /\ AlongEdges(<<streams[i].state>> \o stop_stream_state_writes(streams, stream_id))
            /\ \A fault \in Faults :
                  AlongEdges(<<streams[i].state>> \o start_stream_state_writes(streams, stream_id, fault))

\* C18: between registry operations (the registry lock is not held), every
\* registered stream whose runner owns a live worker process is RUNNING,
\* never STOPPED, STARTING or ERROR.
C18_LiveImpliesRunning ==
    \A i \in 1..Len(streams) : streams[i].process = "live" => streams[i].state = RUNNING

\* A stream is RUNNING with its live worker beside one that was stopped,
\* while the application serves.
C18_Witness ==
    /\ app_pc = "serving"
    /\ \E i \in 1..Len(streams) : streams[i].process = "live" /\ streams[i].state = RUNNING
    /\ \E i \in 1..Len(streams) : streams[i].process = None /\ streams[i].state = STOPPED

\* C19: between registry operations, every registered stream whose runner
\* owns no live worker process is STOPPED or ERROR, also after the worker
\* has exited on its own and after a stop_stream or stop_all_streams that
\* found the worker dead.
C19_DeadImpliesStoppedOrError ==
    \A i \in 1..Len(streams) : streams[i].process # "live" => streams[i].state \in {STOPPED, ERROR}

\* C20: between registry operations, started_at is set only in RUNNING:
\* every record that is STOPPED or ERROR has no started_at, also one that
\* came to ERROR by a failed start_stream after its worker had crashed.
C20_StartedAtOnlyWhenRunning ==
    \A i \in 1..Len(streams) : streams[i].state \in {STOPPED, ERROR} => streams[i].started_at = None

\* C21: NoiseFFmpegRunner.stop returns false and changes nothing exactly
\* when the runner has no process handle; in every other case (the process
\* had exited, exits within the grace period, or is killed after it) it
\* returns true, the handle is cleared on return and the process it owned
\* is dead.
C21_StopResult ==
    r_ret.op = "stop" =>
        /\ r_ret.result = FALSE <=> r_ret.before = None
        /\ r_ret.after = NoPid
        /\ ~r_ret.result => r_ret.owned = NoPid
        /\ r_ret.result => procs[r_ret.owned] = "exited"

\* stop has returned after it had to kill its process.
C21_Witness ==
    /\ r_ret.op = "stop"
    /\ r_ret.result
    /\ r_ret.killed
    /\ procs[r_ret.owned] = "exited"

\* C22: get_status reports the most recent error line captured from the
\* current worker: whenever the lock of the runner is free and the runner
\* has a process, _last_error is the error line recorded from that process,
\* and None when none was recorded: the reset of start does not overwrite a
\* recorded line and the reader of an earlier process does not set it.
C22_LastErrorOfCurrentWorker ==
    (r_lock = None /\ r_process # NoPid) =>
        r_last_error = IF stderr_of[r_process] = "recorded" THEN r_process ELSE NoPid

\* C23: after the teardown of lifespan has finished (flag cleared, join
\* with its timeout, stop_all_streams), no worker process is live, and none
\* is spawned later, however a monitor cycle in progress interleaves.
C23_NoWorkerAfterShutdown ==
    app_pc = "down" => \A id \in StreamIds : workers[id] = 0

\* C24: a stream that an API caller stopped with a successful stop_stream
\* or stop_all_streams has no live worker until a caller issues
\* start_stream for it or start_all_streams; the monitor, acting on a
\* health summary taken before the stop, does not restart it.
C24_StoppedStaysStopped ==
    \A id \in api_stopped : workers[id] = 0

HeldRunnerLocks(t) == {id \in StreamIds : runner_locks[id] = t}

\* A thread that waits for the lock of the registry holds no runner lock,
\* and one that holds a runner lock is inside the lock of the registry or
\* in to_dict.
LockOrder ==
    \A t \in Threads :
        /\ calls[t].pc = "acquire" => HeldRunnerLocks(t) = {}
        /\ HeldRunnerLocks(t) # {} => (lock = t \/ calls[t].pc = "to_dict")

\* C25: the system is deadlock-free: every thread takes the lock of the
\* registry before a runner lock and never the other way round, no thread
\* holds two runner locks at once, the _read_stderr thread waits for no
\* lock, and every registry operation that was started returns, given that
\* a worker exits after terminate or kill.
C25_DeadlockFree ==
    /\ [](LockOrder)
    /\ [](\A t \in Threads : Cardinality(HeldRunnerLocks(t)) <= 1)
    /\ [](\A id \in StreamIds : drain_pc[id] = "got" => ENABLED StderrRecord(id))
    /\ \A t \in Threads : (calls[t].pc # "idle") ~> (calls[t].pc = "idle")

\* One thread waits in stop() for its worker, inside the lock of the
\* registry and the lock of the runner, while the other waits for the lock
\* of the registry and a _read_stderr thread is about to assign.
C25_Witness ==
    \E t \in Threads : \E u \in Threads \ {t} :
        /\ lock = t
        /\ calls[t].pc = "grace"
        /\ runner_locks[EntryId(t)] = t
        /\ calls[u].pc = "acquire"
        /\ \E id \in StreamIds : drain_pc[id] = "got"

====
